---- MODULE Spec2Model ----
(***************************************************************************)
(* Model of run.py: the development-environment bootstrapper.  One process *)
(* invocation (the __main__ block and run_steps) is a sequence of actions; *)
(* the machine's environment (what is installed, which files exist) is     *)
(* state that survives the process, so that the script can be run again.   *)
(* Strings that the code compares or searches (the step names, the values  *)
(* of --skip and --force) are sequences of characters.                     *)
(***************************************************************************)
EXTENDS Integers, Sequences, FiniteSets

(* ------------------------------ bounds -------------------------------- *)

\* At most this many things of the machine are not in their goal state when
\* the script is first started.
MaxUnsat == 1

\* The script is run at most this many times in a row.
MaxRuns == 2

(* ------------------------- the step classes --------------------------- *)

\* Every subclass of InstallStep that get_steps can yield.
Classes ==
    {"XCodeInstall", "HomebrewInstall", "BrewDependenciesInstall",
     "VirtualEnvInstall", "AptDependenciesInstall", "UpdateHostsFile",
     "GitClone", "VirtualEnv", "ProductionEnvironmentVariable",
     "SetupDatabase", "RunServerAlias", "RunServer"}

\* self.__class__.__name__, as a sequence of characters.
display_name(c) ==
    CASE c = "XCodeInstall" ->
        <<"X","C","o","d","e","I","n","s","t","a","l","l">>
    [] c = "HomebrewInstall" ->
        <<"H","o","m","e","b","r","e","w","I","n","s","t","a","l","l">>
    [] c = "BrewDependenciesInstall" ->
        <<"B","r","e","w","D","e","p","e","n","d","e","n","c","i","e","s","I","n","s","t","a","l","l">>
    [] c = "VirtualEnvInstall" ->
        <<"V","i","r","t","u","a","l","E","n","v","I","n","s","t","a","l","l">>
    [] c = "AptDependenciesInstall" ->
        <<"A","p","t","D","e","p","e","n","d","e","n","c","i","e","s","I","n","s","t","a","l","l">>
    [] c = "UpdateHostsFile" ->
        <<"U","p","d","a","t","e","H","o","s","t","s","F","i","l","e">>
    [] c = "GitClone" ->
        <<"G","i","t","C","l","o","n","e">>
    [] c = "VirtualEnv" ->
        <<"V","i","r","t","u","a","l","E","n","v">>
    [] c = "ProductionEnvironmentVariable" ->
        <<"P","r","o","d","u","c","t","i","o","n","E","n","v","i","r","o","n","m","e","n","t","V","a","r","i","a","b","l","e">>
    [] c = "SetupDatabase" ->
        <<"S","e","t","u","p","D","a","t","a","b","a","s","e">>
    [] c = "RunServerAlias" ->
        <<"R","u","n","S","e","r","v","e","r","A","l","i","a","s">>
    [] c = "RunServer" ->
        <<"R","u","n","S","e","r","v","e","r">>

\* get_steps with the clone yielded before the hosts-file step.
get_steps_CloneFirst(_os) ==
    (IF _os = "osx"
        THEN <<"XCodeInstall", "HomebrewInstall", "BrewDependenciesInstall",
               "VirtualEnvInstall">>
        ELSE <<>>)
    \o (IF _os = "linux" THEN <<"AptDependenciesInstall">> ELSE <<>>)
    \o <<"GitClone", "UpdateHostsFile", "VirtualEnv",
         "ProductionEnvironmentVariable", "SetupDatabase", "RunServerAlias",
         "RunServer">>

\* get_steps(_os, version): the classes the generator yields, in order.
get_steps(_os) ==
    (IF _os = "osx"
        THEN <<"XCodeInstall", "HomebrewInstall", "BrewDependenciesInstall",
               "VirtualEnvInstall">>
        ELSE <<>>)
    \o (IF _os = "linux" THEN <<"AptDependenciesInstall">> ELSE <<>>)
    \o <<"UpdateHostsFile", "GitClone", "VirtualEnv",
         "ProductionEnvironmentVariable", "SetupDatabase", "RunServerAlias",
         "RunServer">>

\* The values sys.platform takes in the model: the two supported ones and
\* one that get_os_and_version rejects.
Platforms == {"darwin", "linux2", "win32"}

\* platform.mac_ver() reduced to major.minor and written without the dot
\* (10.8 is 108); 0 where the platform is not darwin.
MacVersions == {108, 109}

\* The keys of XCodeInstall.setup's downloads table (10.7 and 10.8).
XCodeDownloads == {107, 108}

\* get_os_and_version that takes every platform but darwin for Linux.
get_os_LinuxByDefault(p) ==
    IF p = "darwin" THEN "osx" ELSE "linux"

\* get_os_and_version(): the OS family, or "raise" for the Exception of
\* line 56.
get_os(p) ==
    CASE p = "darwin" -> "osx"
    []   p = "linux2" -> "linux"
    []   OTHER -> "raise"

(* ----------------------------- strings -------------------------------- *)

\* Python's  sub in s  for two strings: sub occurs somewhere within s.
StrIn(sub, s) ==
    \E i \in 0..(Len(s) - Len(sub)) : SubSeq(s, i + 1, i + Len(sub)) = sub

\* ",".join(names): how a list of step names is written on the command line.
RECURSIVE JoinComma(_)
JoinComma(names) ==
    IF names = <<>> THEN <<>>
    ELSE IF Len(names) = 1 THEN display_name(names[1])
    ELSE display_name(names[1]) \o <<",">> \o JoinComma(Tail(names))

\* The lists of step names given on --skip and on --force in the model.
FlagArgs ==
    {<<>>, <<"GitClone">>, <<"VirtualEnvInstall">>, <<"VirtualEnv">>,
     <<"GitClone", "SetupDatabase">>}

\* The values of args.skip and args.force: the default '' and the joined lists.
FlagValues == {JoinComma(l) : l \in FlagArgs}

(* ------------------------- the environment ---------------------------- *)

\* What the machine holds for a step's goal, as its probe sees it:
\*   "sat"     the probe's commands succeed and report the goal reached;
\*   "unsat"   they report that it is not reached (a missing path, a package
\*             that is not listed, a grep that exits 1 without a match);
\*   "partial" VirtualEnv only: virtualenv/bin/activate_this.py exists and
\*             pip freeze lacks a requirement;
\*   "cmdfail" a command of the probe exits non-zero (sh.ErrorReturnCode);
\*   "other"   the probe raises another exception (sh.CommandNotFound for a
\*             tool that is not installed).
EnvStates(c) ==
    CASE c \in {"XCodeInstall", "HomebrewInstall", "VirtualEnvInstall"} ->
            {"sat", "cmdfail", "other"}
    []   c \in {"BrewDependenciesInstall", "AptDependenciesInstall"} ->
            {"sat", "unsat", "cmdfail"}
    []   c \in {"UpdateHostsFile", "ProductionEnvironmentVariable",
                "RunServerAlias"} ->
            {"sat", "unsat", "other"}
    []   c \in {"GitClone", "SetupDatabase"} -> {"sat", "unsat"}
    []   c = "VirtualEnv" -> {"sat", "unsat", "partial", "cmdfail"}
    []   OTHER -> {"sat"}

\* os.path.exists(self.activate_this), read off the environment.
activate_this_exists(e) == e["VirtualEnv"] # "unsat"

\* os.path.exists(options.get("project_dir")), read off the environment.
project_dir_exists(e) == e["GitClone"] = "sat"

\* What the body of already_satisfied evaluates to before any handler of the
\* property: "True", "False", "ErrorReturnCode" or "Exception".
ProbeBody(c, e) ==
    CASE c = "RunServer" -> "True"
    []   e[c] = "sat" -> "True"
    []   e[c] = "cmdfail" -> "ErrorReturnCode"
    []   e[c] = "other" -> "Exception"
    []   e[c] = "unsat" /\ c \in {"UpdateHostsFile",
                                  "ProductionEnvironmentVariable",
                                  "RunServerAlias"} -> "ErrorReturnCode"
    []   OTHER -> "False"

\* The except clause around the body of each class's already_satisfied:
\* a bare except, except sh.ErrorReturnCode, or none.
ProbeHandler(c) ==
    CASE c \in {"XCodeInstall", "HomebrewInstall", "VirtualEnvInstall"} ->
            "bare"
    []   c \in {"UpdateHostsFile", "ProductionEnvironmentVariable",
                "RunServerAlias"} -> "ErrorReturnCode"
    []   OTHER -> "none"

\* step.already_satisfied as run_steps sees it: "True", "False", or "Raise"
\* when the property lets an exception out.
already_satisfied(c, e) ==
    LET b == ProbeBody(c, e) IN
    CASE b \in {"True", "False"} -> b
    []   ProbeHandler(c) = "bare" -> "False"
    []   ProbeHandler(c) = "ErrorReturnCode" /\ b = "ErrorReturnCode" -> "False"
    []   OTHER -> "Raise"

\* How often evaluating already_satisfied executes activate_this.py
\* (VirtualEnv.already_satisfied calls self.activate() once the file exists).
ProbeActivations(c, e) ==
    IF c = "VirtualEnv" /\ activate_this_exists(e) THEN 1 ELSE 0

\* The ways setup() of a class can end: "ok", "ErrorReturnCode" (a command
\* exits non-zero) or "Exception".  The steps that only call prepend_file
\* run no command; XCodeInstall raises NotImplementedError before anything
\* else when the OS version has no download; SetupDatabase begins with
\* os.chdir(project_dir).
SetupOutcomes(c, e, ver) ==
    CASE c = "XCodeInstall" /\ ver \notin XCodeDownloads -> {"Exception"}
    []   c = "SetupDatabase" /\ ~project_dir_exists(e) -> {"Exception"}
    []   c \in {"UpdateHostsFile", "ProductionEnvironmentVariable",
                "RunServerAlias"} -> {"ok", "Exception"}
    []   OTHER -> {"ok", "ErrorReturnCode", "Exception"}

\* What setup() can leave behind for its own goal, given how it ended.  A
\* prepend_file that returns has written the line the probe greps for; a
\* setup that raised before its first mutation leaves the goal as it was.
SetupEffects(c, e, ver, outcome) ==
    CASE c = "XCodeInstall" /\ ver \notin XCodeDownloads -> {e[c]}
    []   c = "SetupDatabase" /\ ~project_dir_exists(e) -> {e[c]}
    []   c \in {"UpdateHostsFile", "ProductionEnvironmentVariable",
                "RunServerAlias"} ->
            IF outcome = "ok" THEN {"sat"} ELSE {e[c]}
    []   c = "VirtualEnv" ->
            IF outcome = "ok" \/ activate_this_exists(e)
                THEN EnvStates(c) \ {"unsat"} ELSE EnvStates(c)
    []   OTHER -> EnvStates(c)

\* How often VirtualEnv.setup executes activate_this.py: once, after the
\* virtualenv command when that was needed and did not fail.
SetupActivations(c, e, new) ==
    IF c = "VirtualEnv" /\ new # "unsat" THEN 1 ELSE 0

(* ------------------------------ state --------------------------------- *)

VARIABLES
    platform,       \* sys.platform
    mac_ver,        \* platform.mac_ver(), see MacVersions
    skip,           \* args.skip, the string after --skip
    force,          \* args.force, the string after --force
    env,            \* the machine: class -> state of its goal (EnvStates)
    sh_importable,  \* whether  import sh  succeeds (load_this_script_deps)
    temp,           \* what __main__ has left on disk: the temporary
                    \* directories made, the sh.py files downloaded into
                    \* them and the chmod 777 calls
    run,            \* which invocation of the script this is
    prevStatus,     \* exit status of the previous invocation, -1 if none
    prevSetups,     \* setup() calls of the previous invocation
    pc,             \* position in the script
    status,         \* exit status of the process, -1 while it runs
    raised,         \* where the uncaught exception that ended it was raised
    os_,            \* options['os']
    steps,          \* the sequence get_steps yields
    idx,            \* how many of them the for loop has taken
    cwd,            \* os.getcwd(): "start", "temp" or "project"
    activations,    \* executions of activate_this.py in this process
    environ,        \* variables this process has set in os.environ
    instantiated,   \* class -> step_cls(options) calls in this run
    always_run_calls, \* class -> always_run() calls in this run
    probe_calls,    \* class -> evaluations of already_satisfied in this run
    setup_calls,    \* class -> setup() calls in this run
    probe_result,   \* what already_satisfied last gave for the current step
    setup_result    \* how setup() of the current step ended

inputs == <<platform, mac_ver, skip, force, sh_importable>>
process == <<cwd, activations, environ>>
counters == <<instantiated, always_run_calls, probe_calls, setup_calls>>
results == <<probe_result, setup_result>>
history == <<run, prevStatus, prevSetups>>
vars == <<platform, mac_ver, skip, force, env, sh_importable, temp, run,
          prevStatus, prevSetups, pc, status, raised, os_, steps, idx, cwd, activations,
          environ, instantiated, always_run_calls, probe_calls, setup_calls,
          probe_result, setup_result>>

NoCalls == [c \in Classes |-> 0]

\* The classes whose goal the script can touch on this platform.
Relevant(p) ==
    IF get_os(p) = "raise" THEN {}
    ELSE {get_steps(get_os(p))[i] : i \in 1..Len(get_steps(get_os(p)))}

\* The machines the script is started on: every goal outside the platform's
\* catalog is left alone, and at most MaxUnsat things are not as wished.
Machines(p) ==
    UNION {
        {[e |-> [c \in Classes |-> IF c \in U THEN f[c] ELSE "sat"],
          sh |-> b] :
            f \in {g \in [U -> {"unsat", "partial", "cmdfail", "other"}] :
                      \A c \in U : g[c] \in EnvStates(c)}} :
        <<U, b>> \in {ub \in (SUBSET Relevant(p)) \X BOOLEAN :
                        Cardinality(ub[1]) + (IF ub[2] THEN 0 ELSE 1)
                            <= MaxUnsat}}

\* A fresh process: nothing called yet, the script about to start.
Fresh ==
    /\ pc = "main"
    /\ status = -1
    /\ raised = "none"
    /\ os_ = "none"
    /\ steps = <<>>
    /\ idx = 0
    /\ cwd = "start"
    /\ activations = 0
    /\ environ = {}
    /\ instantiated = NoCalls
    /\ always_run_calls = NoCalls
    /\ probe_calls = NoCalls
    /\ setup_calls = NoCalls
    /\ probe_result = "none"
    /\ setup_result = "none"

Init ==
    /\ platform \in Platforms
    /\ mac_ver \in (IF platform = "darwin" THEN MacVersions ELSE {0})
    /\ skip \in FlagValues
    /\ force \in FlagValues
    /\ \E m \in Machines(platform) : env = m.e /\ sh_importable = m.sh
    /\ temp = [dirs |-> 0, sh_py |-> 0, chmod |-> 0]
    /\ run = 1
    /\ prevStatus = -1
    /\ prevSetups = 0
    /\ Fresh

(* ----------------------------- actions -------------------------------- *)

\* The process ends: exit(1), the end of the script, or an uncaught
\* exception (Python then exits with status 1).
Exit(st, why) ==
    /\ pc' = "exited"
    /\ status' = st
    /\ raised' = why

\* The step the for loop is at.
step == steps[idx]

\* The skip test giving way to --force.
Skipped_UnlessForced(c) ==
    StrIn(display_name(c), skip) /\ ~StrIn(display_name(c), force)

\* step.display_name in options.get('skip') (line 480): options['skip'] is
\* the string argparse stored, so  in  is Python's substring test.
Skipped(c) == StrIn(display_name(c), skip)

\* step.display_name in options.get('force') (lines 482 and 489), likewise.
Forced(c) == StrIn(display_name(c), force)

\* Line 482 without its force test.
ShortCircuit_IgnoringForce(c, satisfied) == satisfied = "True"

\* Line 482 never continuing: every step that is not skipped is set up.
ShortCircuit_Never(c, satisfied) == FALSE

\* The condition of line 482, given what already_satisfied evaluated to.
ShortCircuit(c, satisfied) == satisfied = "True" /\ ~Forced(c)

\* The loop going from the instantiation straight to the skip check.
AfterInstantiate_SkipCheck == "skip"

\* The statement that follows step = step_cls(options): line 479.
AfterInstantiate == "always_run"

\* Lines 492-499 going on to the next step whatever the second probe gave.
Verdict_Lenient(satisfied) ==
    IF satisfied = "Raise" THEN "raise" ELSE "continue"

\* Lines 492-499, given what the second evaluation of already_satisfied
\* gave: the loop continues, exit(1) is called, or the exception goes up.
Verdict(satisfied) ==
    CASE satisfied = "True" -> "continue"
    []   satisfied = "False" -> "exit"
    []   OTHER -> "raise"

\* __main__ up to the with statement (lines 504-511): the arguments are
\* parsed, the options built, and make_temp_directory creates a directory
\* and changes into it.
Main ==
    /\ pc = "main"
    /\ temp' = [temp EXCEPT !.dirs = @ + 1]
    /\ cwd' = "temp"
    /\ pc' = "load_deps"
    /\ UNCHANGED <<inputs, env, history, status, raised, os_, steps,
                   idx, activations, environ, counters, results>>

\* load_this_script_deps() and sh.chmod("777", temp_dir) (lines 512-513):
\* when sh cannot be imported it is downloaded into the temporary directory,
\* and urlretrieve may raise.
LoadDeps ==
    /\ pc = "load_deps"
    /\ \E download \in {"ok", "IOError"} :
        IF sh_importable
            THEN /\ download = "ok"
                 /\ temp' = [temp EXCEPT !.chmod = @ + 1]
                 /\ pc' = "run_steps"
                 /\ UNCHANGED <<status, raised>>
        ELSE IF download = "ok"
            THEN /\ temp' = [temp EXCEPT !.sh_py = @ + 1, !.chmod = @ + 1]
                 /\ pc' = "run_steps"
                 /\ UNCHANGED <<status, raised>>
        ELSE /\ Exit(1, "load_this_script_deps")
             /\ UNCHANGED temp
    /\ UNCHANGED <<inputs, env, history, os_, steps, idx, process,
                   counters, results>>

\* run_steps up to the for statement (lines 474-477): the OS is detected and
\* stored in the options, and get_steps is called with it.
RunStepsBegin ==
    /\ pc = "run_steps"
    /\ IF get_os(platform) = "raise"
        THEN /\ Exit(1, "get_os_and_version")
             /\ UNCHANGED <<os_, steps, idx>>
        ELSE /\ os_' = get_os(platform)
             /\ steps' = get_steps(get_os(platform))
             /\ idx' = 0
             /\ pc' = "for"
             /\ UNCHANGED <<status, raised>>
    /\ UNCHANGED <<inputs, env, temp, history, process, counters,
                   results>>

\* The for statement and step_cls(options) (lines 477-478).  When the
\* generator is exhausted run_steps returns and the script ends.
\* VirtualEnv.__init__ begins with os.chdir(project_dir), which raises
\* OSError when the directory does not exist.
ForNext ==
    /\ pc = "for"
    /\ IF idx = Len(steps)
        THEN /\ Exit(0, "none")
             /\ UNCHANGED <<idx, cwd, instantiated>>
        ELSE LET c == steps[idx + 1] IN
             /\ idx' = idx + 1
             /\ instantiated' = [instantiated EXCEPT ![c] = @ + 1]
             /\ IF c = "VirtualEnv" /\ ~project_dir_exists(env)
                 THEN /\ Exit(1, "__init__")
                      /\ UNCHANGED cwd
                 ELSE /\ cwd' = IF c = "VirtualEnv" THEN "project" ELSE cwd
                      /\ pc' = AfterInstantiate
                      /\ UNCHANGED <<status, raised>>
    /\ probe_result' = "none"
    /\ setup_result' = "none"
    /\ UNCHANGED <<inputs, env, temp, history, os_, steps,
                   activations, environ, always_run_calls, probe_calls,
                   setup_calls>>

\* step.always_run() (line 479).  VirtualEnv activates an existing
\* virtualenv, SetEnvironmentVariable sets os.environ, RunServer changes to
\* the project directory, starts the server and waits for it (wait() raises
\* when the server exits non-zero; KeyboardInterrupt is passed over); every
\* other class inherits the empty method.
AlwaysRun ==
    /\ pc = "always_run"
    /\ always_run_calls' = [always_run_calls EXCEPT ![step] = @ + 1]
    /\ \E server \in {"returns", "ErrorReturnCode"} :
        IF step = "RunServer"
            THEN IF ~project_dir_exists(env)
                    THEN /\ server = "returns"
                         /\ Exit(1, "always_run")
                         /\ UNCHANGED cwd
                 ELSE IF server = "returns"
                    THEN /\ cwd' = "project"
                         /\ pc' = "skip"
                         /\ UNCHANGED <<status, raised>>
                 ELSE /\ cwd' = "project"
                      /\ Exit(1, "always_run")
        ELSE /\ server = "returns"
             /\ pc' = "skip"
             /\ UNCHANGED <<cwd, status, raised>>
    /\ activations' =
          IF step = "VirtualEnv" /\ activate_this_exists(env)
              THEN activations + 1 ELSE activations
    /\ environ' =
          IF step = "ProductionEnvironmentVariable"
              THEN environ \cup {"PRODUCTION"} ELSE environ
    /\ UNCHANGED <<inputs, env, temp, history, os_, steps, idx,
                   instantiated, probe_calls, setup_calls, results>>

\* if step.display_name in options.get('skip'): continue (lines 480-481).
SkipCheck ==
    /\ pc = "skip"
    /\ pc' = IF Skipped(step) THEN "for" ELSE "satisfied"
    /\ UNCHANGED <<inputs, env, temp, history, status, raised, os_,
                   steps, idx, process, counters, results>>

\* if step.already_satisfied and step.display_name not in
\* options.get('force'): continue (lines 482-483).  The property is
\* evaluated first; an exception it lets out ends the process.
Probe ==
    /\ pc = "satisfied"
    /\ probe_calls' = [probe_calls EXCEPT ![step] = @ + 1]
    /\ probe_result' = already_satisfied(step, env)
    /\ activations' = activations + ProbeActivations(step, env)
    /\ IF already_satisfied(step, env) = "Raise"
        THEN Exit(1, "already_satisfied")
        ELSE /\ pc' = IF ShortCircuit(step, already_satisfied(step, env))
                        THEN "for" ELSE "setup"
             /\ UNCHANGED <<status, raised>>
    /\ UNCHANGED <<inputs, env, temp, history, os_, steps, idx, cwd,
                   environ, instantiated, always_run_calls, setup_calls,
                   setup_result>>

\* print display_doing; try: step.setup() except sh.ErrorReturnCode: print
\* e.stderr (lines 484-488).  Any other exception ends the process.
Setup ==
    /\ pc = "setup"
    /\ setup_calls' = [setup_calls EXCEPT ![step] = @ + 1]
    /\ \E outcome \in SetupOutcomes(step, env, mac_ver) :
       \E new \in SetupEffects(step, env, mac_ver, outcome) :
        /\ setup_result' = outcome
        /\ env' = [env EXCEPT ![step] = new]
        /\ activations' = activations + SetupActivations(step, env, new)
        /\ IF outcome = "Exception"
            THEN Exit(1, "setup")
            ELSE /\ pc' = "force"
                 /\ UNCHANGED <<status, raised>>
    /\ cwd' = IF step = "SetupDatabase" /\ project_dir_exists(env)
                THEN "project" ELSE cwd
    /\ UNCHANGED <<inputs, temp, history, os_, steps, idx, environ,
                   instantiated, always_run_calls, probe_calls, probe_result>>

\* if step.display_name in options.get('force'): exit(1) (lines 489-491).
ForceCheck ==
    /\ pc = "force"
    /\ IF Forced(step)
        THEN Exit(1, "none")
        ELSE /\ pc' = "recheck"
             /\ UNCHANGED <<status, raised>>
    /\ UNCHANGED <<inputs, env, temp, history, os_, steps, idx,
                   process, counters, results>>

\* if step.already_satisfied: continue; otherwise the error and the
\* trouble-shooting text are printed and exit(1) is called (lines 492-499).
Recheck ==
    /\ pc = "recheck"
    /\ probe_calls' = [probe_calls EXCEPT ![step] = @ + 1]
    /\ probe_result' = already_satisfied(step, env)
    /\ activations' = activations + ProbeActivations(step, env)
    /\ IF Verdict(already_satisfied(step, env)) = "raise"
        THEN Exit(1, "already_satisfied")
        ELSE IF Verdict(already_satisfied(step, env)) = "continue"
            THEN /\ pc' = "for"
                 /\ UNCHANGED <<status, raised>>
        ELSE Exit(1, "none")
    /\ UNCHANGED <<inputs, env, temp, history, os_, steps, idx, cwd,
                   environ, instantiated, always_run_calls, setup_calls,
                   setup_result>>

\* The script is started again with the same command line on the machine
\* as the previous invocation left it: a new process, the same environment.
Rerun ==
    /\ pc = "exited"
    /\ run < MaxRuns
    /\ run' = run + 1
    /\ prevStatus' = status
    /\ prevSetups' = Cardinality({c \in Classes : setup_calls[c] > 0})
    /\ pc' = "main"
    /\ status' = -1
    /\ raised' = "none"
    /\ os_' = "none"
    /\ steps' = <<>>
    /\ idx' = 0
    /\ cwd' = "start"
    /\ activations' = 0
    /\ environ' = {}
    /\ instantiated' = NoCalls
    /\ always_run_calls' = NoCalls
    /\ probe_calls' = NoCalls
    /\ setup_calls' = NoCalls
    /\ probe_result' = "none"
    /\ setup_result' = "none"
    /\ UNCHANGED <<inputs, env, temp>>

Next ==
    \/ Main
    \/ LoadDeps
    \/ RunStepsBegin
    \/ ForNext
    \/ AlwaysRun
    \/ SkipCheck
    \/ Probe
    \/ Setup
    \/ ForceCheck
    \/ Recheck
    \/ Rerun

Spec == Init /\ [][Next]_vars

TypeOK ==
    /\ pc \in {"main", "load_deps", "run_steps", "for", "always_run", "skip",
               "satisfied", "setup", "force", "recheck", "exited"}
    /\ status \in {-1, 0, 1}
    /\ (pc = "exited") = (status # -1)
    /\ run \in 1..MaxRuns
    /\ idx \in 0..Len(steps)

(* ------------------------------ claims -------------------------------- *)

\* name is one of the items of flag.split(","): it occurs in the flag's
\* value from the start or a comma up to a comma or the end (a step name
\* holds no comma).
ItemOf(name, flag) ==
    \E i \in 0..(Len(flag) - Len(name)) :
        /\ SubSeq(flag, i + 1, i + Len(name)) = name
        /\ (i = 0 \/ flag[i] = ",")
        /\ (i + Len(name) = Len(flag) \/ flag[i + Len(name) + 1] = ",")

\* The step's display name is one of the names given on the flag.
Named(c, flag) == ItemOf(display_name(c), flag)

\* The steps of the catalog after the one the loop is at.
Later == {steps[j] : j \in (idx + 1)..Len(steps)}

\* No step after the current one has been instantiated, always_run or set up.
LaterUntouched ==
    \A c \in Later :
        /\ instantiated[c] = 0
        /\ always_run_calls[c] = 0
        /\ probe_calls[c] = 0
        /\ setup_calls[c] = 0

\* C1. Skip precedence: setup() of a step whose name is given on --skip is
\* never invoked in a run, whatever its goal's state and whether or not the
\* name is also given on --force.
SkipPrecedence ==
    \A c \in Classes : Named(c, skip) => setup_calls[c] = 0

\* C1 witness: the loop has passed over a step that is named on --skip and on
\* --force and whose goal is not reached.
SkipPrecedenceWitness ==
    /\ pc = "for"
    /\ idx > 0
    /\ Named(step, skip)
    /\ Named(step, force)
    /\ env[step] # "sat"
    /\ always_run_calls[step] = 1
    /\ setup_calls[step] = 0

\* C10. Force/skip matching is by whole step name: a step the loop passes
\* over at the skip check is named on --skip, and a step that is set up
\* although its probe gave True, or that ends the run at the force check,
\* is named on --force.
WholeNameMatching ==
    /\ (pc = "for" /\ idx > 0 /\ probe_calls[step] = 0)
          => Named(step, skip)
    /\ (idx > 0 /\ setup_calls[step] = 1 /\ probe_calls[step] = 1
            /\ probe_result = "True")
          => Named(step, force)
    /\ (pc = "exited" /\ idx > 0 /\ raised = "none" /\ status = 1
            /\ setup_calls[step] = 1 /\ probe_calls[step] = 1)
          => Named(step, force)

\* The loop has got past always_run() of the step at position i: the step
\* was instantiated and the run did not end inside __init__ or always_run.
Reached(i) ==
    /\ i \in 1..idx
    /\ (i = idx => /\ pc # "always_run"
                   /\ raised \notin {"__init__", "always_run"})

\* C2 as stated. Force override: every step the loop has got to whose name
\* is given on --force has its setup() invoked, also when it was already
\* satisfied, and the run ends there with a non-zero status: the loop never
\* goes on to a later step.  (A probe that raises is left aside here.)
ForceOverrideAsStated ==
    \A i \in 1..idx :
        (/\ Reached(i)
         /\ Named(steps[i], force)
         /\ (i < idx \/ pc \in {"for", "exited"})
         /\ ~(i = idx /\ raised = "already_satisfied"))
        => /\ setup_calls[steps[i]] = 1
           /\ i = idx
           /\ pc = "exited"
           /\ status = 1

\* C2 as amended. A step named on --force that the loop has got to and that
\* the skip check does not pass over is set up whatever its probe returned,
\* also when that was True; right after its setup() the process exits with
\* status 1 without a second probe, and the loop never takes a later step:
\* none is instantiated, always_run or set up.
ForceOverride ==
    \A i \in 1..idx :
        (Reached(i) /\ Named(steps[i], force) /\ ~Skipped(steps[i]))
        => /\ i = idx
           /\ LaterUntouched
           /\ pc \in {"skip", "satisfied", "setup", "force", "exited"}
           /\ probe_calls[steps[i]] <= 1
           /\ (probe_result \in {"True", "False"}
                 => /\ pc \in {"setup", "force", "exited"}
                    /\ (pc # "setup" => setup_calls[steps[i]] = 1))
           /\ (pc = "exited" => status = 1)
           /\ (pc = "exited" /\ raised = "none"
                 => setup_calls[steps[i]] = 1 /\ setup_result # "none")

\* C2 witness: a forced step whose probe gave True was set up, the process
\* has exited with status 1 and steps of the catalog remain.
ForceOverrideWitness ==
    /\ pc = "exited"
    /\ status = 1
    /\ raised = "none"
    /\ idx > 0
    /\ idx < Len(steps)
    /\ Named(step, force)
    /\ probe_result = "True"
    /\ setup_calls[step] = 1

\* C3 as stated. Idempotence: an invocation that follows another one with
\* the same command line on the machine as that one left it calls no
\* setup().
IdempotenceAsStated ==
    run >= 2 => \A c \in Classes : setup_calls[c] = 0

\* C3 as amended. An invocation that follows one which ended with exit
\* status 0, with the same command line and on the machine as that one left
\* it, calls no setup().
Idempotence ==
    (run >= 2 /\ prevStatus = 0) => \A c \in Classes : setup_calls[c] = 0

\* C3 witness: the first invocation set something up and ended with status
\* 0, and the second one has run to its end with status 0.
IdempotenceWitness ==
    /\ run = 2
    /\ prevStatus = 0
    /\ prevSetups > 0
    /\ pc = "exited"
    /\ status = 0

\* C4. Halt at the first unresolved failure: once the second evaluation of
\* already_satisfied, the one after setup(), has given False, the process
\* has exited with status 1, setup() of the step was called exactly once and
\* no later step is instantiated, always_run or set up; no setup() is ever
\* called twice in a run.
HaltAtFirstFailure ==
    /\ \A c \in Classes : setup_calls[c] <= 1 /\ probe_calls[c] <= 2
    /\ (idx > 0 /\ probe_calls[step] = 2 /\ probe_result = "False")
          => /\ pc = "exited"
             /\ status = 1
             /\ setup_calls[step] = 1
             /\ LaterUntouched

\* C4 witness: a step that is neither skipped nor forced failed its re-check
\* with steps of the catalog still to come.
HaltAtFirstFailureWitness ==
    /\ pc = "exited"
    /\ idx > 0
    /\ idx < Len(steps)
    /\ ~Named(step, skip)
    /\ ~Named(step, force)
    /\ probe_calls[step] = 2
    /\ probe_result = "False"

\* C5. Probes never abort the run: evaluating already_satisfied, before
\* setup() or at the re-check, never ends the process with the probe's
\* exception, and it changes nothing: not the machine, not the process's
\* working directory, activated virtualenv or environment variables.
ProbesNeverAbort ==
    [][(pc \in {"satisfied", "recheck"})
          => /\ raised' # "already_satisfied"
             /\ UNCHANGED <<env, temp, cwd, activations, environ>>]_vars

\* Everything __main__ and the steps can change on the machine is as the
\* script found it.
NothingMutated ==
    /\ temp = [dirs |-> 0, sh_py |-> 0, chmod |-> 0]
    /\ \A c \in Classes : setup_calls[c] = 0

\* No step has been instantiated or used.
NoStepTouched ==
    \A c \in Classes :
        /\ instantiated[c] = 0
        /\ always_run_calls[c] = 0
        /\ probe_calls[c] = 0
        /\ setup_calls[c] = 0

\* sys.platform is neither darwin (the OSX family) nor linux2 (the Linux
\* family).
UnsupportedOS == platform \notin {"darwin", "linux2"}

\* C6 as stated. Unsupported platform: the run fails with the unsupported-
\* platform error before any step is instantiated, the exit status is
\* non-zero, and nothing on the filesystem has been mutated at any point.
UnsupportedPlatformAsStated ==
    UnsupportedOS
        => /\ NoStepTouched
           /\ (pc = "exited" => status = 1)
           /\ NothingMutated

\* C6 as amended. Unsupported platform: no step is ever instantiated,
\* always_run, probed or set up, so no step mutates anything, and the
\* process exits with status 1, from get_os_and_version unless
\* load_this_script_deps failed before run_steps was called.  What is on the
\* filesystem by then is what __main__ does before run_steps: one temporary
\* directory per invocation, its chmod, and sh.py downloaded into it when sh
\* cannot be imported.
UnsupportedPlatform ==
    UnsupportedOS
        => /\ NoStepTouched
           /\ steps = <<>>
           /\ pc \in {"main", "load_deps", "run_steps", "exited"}
           /\ (pc = "exited"
                 => /\ status = 1
                    /\ raised \in {"get_os_and_version",
                                   "load_this_script_deps"})
           /\ temp.dirs = (IF pc = "main" THEN run - 1 ELSE run)
           /\ temp.sh_py <= temp.chmod
           /\ temp.chmod <= temp.dirs
           /\ (sh_importable => temp.sh_py = 0)
           /\ \A c \in Classes : env[c] = "sat"

\* C6 witness: on an unsupported platform the process has ended with the
\* exception of get_os_and_version, and its temporary directory exists.
UnsupportedPlatformWitness ==
    /\ UnsupportedOS
    /\ pc = "exited"
    /\ raised = "get_os_and_version"
    /\ temp.dirs = 1

\* The display names of a sequence of classes.
StepNames(seq) == [i \in 1..Len(seq) |-> display_name(seq[i])]

\* The Linux catalog as the specification's example writes it.
ExampleLinuxNames ==
    << <<"A","p","t","D","e","p","e","n","d","e","n","c","i","e","s">>,
       <<"U","p","d","a","t","e","H","o","s","t","s","F","i","l","e">>,
       <<"G","i","t","C","l","o","n","e">>,
       <<"S","a","n","d","b","o","x","S","e","t","u","p">>,
       <<"S","e","t","E","n","v","V","a","r">>,
       <<"S","e","t","u","p","D","a","t","a","b","a","s","e">>,
       <<"R","u","n","S","e","r","v","e","r","A","l","i","a","s">>,
       <<"R","u","n","S","e","r","v","e","r">> >>

\* The names force/skip matching uses for the Linux catalog.
LinuxNames ==
    << <<"A","p","t","D","e","p","e","n","d","e","n","c","i","e","s","I","n","s","t","a","l","l">>,
       <<"U","p","d","a","t","e","H","o","s","t","s","F","i","l","e">>,
       <<"G","i","t","C","l","o","n","e">>,
       <<"V","i","r","t","u","a","l","E","n","v">>,
       <<"P","r","o","d","u","c","t","i","o","n","E","n","v","i","r","o","n","m","e","n","t","V","a","r","i","a","b","l","e">>,
       <<"S","e","t","u","p","D","a","t","a","b","a","s","e">>,
       <<"R","u","n","S","e","r","v","e","r","A","l","i","a","s">>,
       <<"R","u","n","S","e","r","v","e","r">> >>

\* The platform-independent steps in the order the claim gives: hosts file,
\* repository clone, sandbox and dependencies, environment variable,
\* database setup, alias, server launch.
CommonOrder ==
    <<"UpdateHostsFile", "GitClone", "VirtualEnv",
      "ProductionEnvironmentVariable", "SetupDatabase", "RunServerAlias",
      "RunServer">>

\* The bootstrap steps of each OS family.
Bootstrap(o) ==
    IF o = "osx"
        THEN <<"XCodeInstall", "HomebrewInstall", "BrewDependenciesInstall",
               "VirtualEnvInstall">>
        ELSE <<"AptDependenciesInstall">>

\* The catalog is in use: run_steps has called get_steps.
CatalogInUse == os_ # "none"

\* C7 as stated. Catalog ordering, with the Linux names of the example.
CatalogOrderingAsStated ==
    CatalogInUse
        => /\ steps = Bootstrap(os_) \o CommonOrder
           /\ (os_ = "linux" => StepNames(steps) = ExampleLinuxNames)

\* C7 as amended. Catalog ordering: the catalog is the bootstrap steps of
\* the detected OS followed by the same platform-independent steps in the
\* fixed order, and the names used for force/skip matching on Linux are
\* AptDependenciesInstall, UpdateHostsFile, GitClone, VirtualEnv,
\* ProductionEnvironmentVariable, SetupDatabase, RunServerAlias, RunServer.
CatalogOrdering ==
    CatalogInUse
        => /\ steps = Bootstrap(os_) \o CommonOrder
           /\ (os_ = "linux" => StepNames(steps) = LinuxNames)

\* C7 witness: a Linux run has gone through its whole catalog.
CatalogOrderingWitness ==
    /\ os_ = "linux"
    /\ pc = "exited"
    /\ status = 0
    /\ idx = Len(steps)
    /\ \A i \in 1..Len(steps) : instantiated[steps[i]] = 1

\* C8. always_run is unconditional: every instantiated step has its
\* always_run() invoked exactly once, as the first thing after it is
\* instantiated: before the skip check (at which nothing else of the step
\* has been called), and before any already_satisfied or setup().
AlwaysRunUnconditional ==
    /\ \A c \in Classes :
          /\ always_run_calls[c] <= instantiated[c]
          /\ instantiated[c] <= 1
          /\ (probe_calls[c] > 0 \/ setup_calls[c] > 0)
                => always_run_calls[c] = 1
    /\ \A i \in 1..idx :
          (i < idx \/ (pc # "always_run" /\ raised # "__init__"))
              => always_run_calls[steps[i]] = 1
    /\ (pc = "skip" => probe_calls[step] = 0 /\ setup_calls[step] = 0)

\* C8 witness: the loop has passed over a skipped step whose goal is reached;
\* its always_run() was called, its probe and setup() were not.
AlwaysRunUnconditionalWitness ==
    /\ pc = "for"
    /\ idx > 0
    /\ Named(step, skip)
    /\ env[step] = "sat"
    /\ always_run_calls[step] = 1
    /\ probe_calls[step] = 0
    /\ setup_calls[step] = 0

\* C9. A command failure in setup() of a step that is not named on --force
\* does not end the run: the step is probed again, and the loop continues
\* when that gives True and the process exits with status 1 when it gives
\* False.  When the step is named on --force the process exits with status 1
\* right after the failed setup, without a second probe.
SetupFailureDeferred ==
    (idx > 0 /\ setup_result = "ErrorReturnCode" /\ pc # "force")
        => IF Named(step, force)
              THEN /\ pc = "exited"
                   /\ status = 1
                   /\ probe_calls[step] = 1
              ELSE /\ pc \in {"recheck", "for", "exited"}
                   /\ (pc # "recheck" => probe_calls[step] = 2)
                   /\ (pc = "for" => probe_result = "True")
                   /\ (pc = "exited" => status = 1 /\ probe_result # "True")

====
